---------------------------- MODULE Spec2Model ----------------------------
(***************************************************************************)
(* Model of src/items.py: the Item class that curates a product record     *)
(* into a price-prediction prompt.                                         *)
(*                                                                         *)
(* Text is a sequence of one-character strings, so that the string         *)
(* operations of the code (re.sub, strip, replace, split, join, slicing)   *)
(* are computed character by character as Python computes them.            *)
(***************************************************************************)
EXTENDS Integers, Sequences, FiniteSets, TLC

VARIABLES
    item,    \* the Item under construction or built, NoItem before and on failure
    data,    \* the record of the last call on item, NoData before the first
    err,     \* the exception the last call raised, "" for none
    tested,  \* what test_prompt() returned, Untested before the call
    item2,   \* a second Item, built from a record that extends data
    data2,   \* the record item2 was built from
    stuff,   \* the text handed to scrub or scrub_details
    out      \* the results of the text calls made on stuff, in order

vars == <<item, data, err, tested, item2, data2, stuff, out>>

(***************************************************************************)
(* Program constants (src/items.py:9-12).                                  *)
(***************************************************************************)
MIN_TOKENS == 150
MAX_TOKENS == 160
MIN_CHARS == 300
CEILING_CHARS == MAX_TOKENS * 7

PREFIX == <<"P","r","i","c","e"," ","i","s"," ","$">>
QUESTION == <<"H","o","w"," ","m","u","c","h"," ","d","o","e","s"," ","t","h","i","s"," ","c","o","s","t"," ","t","o"," ","t","h","e"," ","n","e","a","r","e","s","t"," ","d","o","l","l","a","r","?">>
REMOVALS == <<
    <<"M","a","n","u","f","a","c","t","u","r","e","r">>,
    <<"L","a","n","g","u","a","g","e">>,
    <<"B","e","s","t"," ","S","e","l","l","e","r","s"," ","R","a","n","k">>,
    <<"I","s"," ","D","i","s","c","o","n","t","i","n","u","e","d"," ","B","y"," ","M","a","n","u","f","a","c","t","u","r","e","r">> >>

(***************************************************************************)
(* Python's string primitives on character sequences.                      *)
(***************************************************************************)
Whitespace == {" ", "\n", "\t"}
Digits == {"0", "1", "2", "3", "4", "5", "6", "7", "8", "9"}
DigitChars == <<"0", "1", "2", "3", "4", "5", "6", "7", "8", "9">>

Min2(a, b) == IF a <= b THEN a ELSE b

Indices(n) == [i \in 1..n |-> i]

\* t[:n]
Take(t, n) == SubSeq(t, 1, Min2(Len(t), n))

RECURSIVE FlattenRange(_, _, _)
FlattenRange(ps, lo, hi) ==
    IF lo > hi THEN <<>>
    ELSE IF lo = hi THEN ps[lo]
    ELSE LET mid == (lo + hi) \div 2
         IN FlattenRange(ps, lo, mid) \o FlattenRange(ps, mid + 1, hi)

\* "".join(ps)
Flatten(ps) == FlattenRange(ps, 1, Len(ps))

\* sep.join(parts)
Join(sep, parts) ==
    LET m == Len(parts)
    IN IF m = 0 THEN <<>>
       ELSE Flatten([k \in 1..(2 * m - 1) |->
                        IF k % 2 = 1 THEN parts[(k + 1) \div 2] ELSE sep])

\* str.strip()
Strip(t) ==
    LET n == Len(t)
    IN IF \A i \in 1..n : t[i] \in Whitespace THEN <<>>
       ELSE LET lo == CHOOSE i \in 1..n :
                          /\ t[i] \notin Whitespace
                          /\ \A j \in 1..(i - 1) : t[j] \in Whitespace
                hi == CHOOSE i \in 1..n :
                          /\ t[i] \notin Whitespace
                          /\ \A j \in (i + 1)..n : t[j] \in Whitespace
            IN SubSeq(t, lo, hi)

\* pat occurs in t at position i
MatchAt(t, pat, i) ==
    /\ i >= 1
    /\ i + Len(pat) - 1 <= Len(t)
    /\ \A k \in 1..Len(pat) : t[i + k - 1] = pat[k]

\* pat in t
Contains(t, pat) == \E i \in 1..Len(t) : MatchAt(t, pat, i)

\* The occurrences str.replace and str.split consume: scanning left to right,
\* an occurrence counts when no earlier counted occurrence overlaps it.
RECURSIVE TakenAt(_, _, _)
TakenAt(t, old, i) ==
    /\ MatchAt(t, old, i)
    /\ \A j \in (i - Len(old) + 1)..(i - 1) : ~TakenAt(t, old, j)

\* t.split(sep), sep non-empty
Split(t, sep) ==
    LET n == Len(t)
        hits == SelectSeq(Indices(n), LAMBDA i : MatchAt(t, sep, i))
        cuts == SelectSeq(hits, LAMBDA i : TakenAt(t, sep, i))
        m == Len(cuts)
    IN [k \in 1..(m + 1) |->
           SubSeq(t, IF k = 1 THEN 1 ELSE cuts[k - 1] + Len(sep),
                     IF k = m + 1 THEN n ELSE cuts[k] - 1)]

\* t.replace(old, new), old non-empty
Replace(t, old, new) == Join(new, Split(t, old))

(***************************************************************************)
(* Item.scrub_details (src/items.py:50-58) on a details text.              *)
(***************************************************************************)
RECURSIVE RemoveAll(_, _)
RemoveAll(details, k) ==
    IF k = 0 THEN details
    ELSE Replace(RemoveAll(details, k - 1), REMOVALS[k], <<>>)

scrub_details(details) == RemoveAll(details, Len(REMOVALS))

(***************************************************************************)
(* Item.scrub (src/items.py:60-70).                                        *)
(***************************************************************************)
ScrubClass == {":", "[", "]", "{", "}"} \cup Whitespace

KeepWord(word) == Len(word) < 7 \/ ~(\E i \in 1..Len(word) : word[i] \in Digits)

scrub(text) ==
    LET s1 == Strip([i \in 1..Len(text) |->
                        IF text[i] \in ScrubClass THEN " " ELSE text[i]])
        s2 == Replace(Replace(Replace(s1, <<" ", ",">>, <<",">>),
                              <<",", ",", ",">>, <<",">>),
                      <<",", ",">>, <<",">>)
        words == Split(s2, <<" ">>)
        select == SelectSeq(words, KeepWord)
    IN Join(<<" ">>, select)

(***************************************************************************)
(* The tokenizer (src/items.py:20) is the transformers library, outside    *)
(* the repository.  It is modelled as a deterministic word-piece splitter: *)
(* a token begins at the first character, at every whitespace character    *)
(* and at every punctuation mark, and runs to the next such place; a token *)
(* id is the piece of text it stands for, and decode concatenates pieces.  *)
(***************************************************************************)
TokenBreak == Whitespace \cup {",", ".", "$", "?", ":"}

encode(text) ==
    LET n == Len(text)
        starts == SelectSeq(Indices(n), LAMBDA i : i = 1 \/ text[i] \in TokenBreak)
        m == Len(starts)
    IN [k \in 1..m |->
           SubSeq(text, starts[k], IF k = m THEN n ELSE starts[k + 1] - 1)]

decode(tokens) == Flatten(tokens)

(***************************************************************************)
(* Values.  A field of a record is a text, None, or absent (the key is not *)
(* in the mapping).  A price is held in quarter dollars, which a float     *)
(* represents exactly.                                                     *)
(***************************************************************************)
Text(v) == [k |-> "str", v |-> v]
None == [k |-> "None", v |-> <<>>]
Missing == [k |-> "missing", v |-> <<>>]
NoItem == [k |-> "noitem"]

IsText(x) == x.k = "str"

\* bool(x) for a text or None
Truthy(x) == IsText(x) /\ x.v # <<>>

round_HalfUp(q) == (q + 2) \div 4

\* Python's round() of the float q/4: to the nearest integer, ties to even
round(q) ==
    LET f == q \div 4
        r == q % 4
    IN IF r < 2 THEN f
       ELSE IF r > 2 THEN f + 1
       ELSE IF f % 2 = 0 THEN f ELSE f + 1

RECURSIVE StrNat(_)
StrNat(n) ==
    IF n < 10 THEN <<DigitChars[n + 1]>>
    ELSE StrNat(n \div 10) \o <<DigitChars[(n % 10) + 1]>>

\* str() of an integer
str(n) == IF n < 0 THEN <<"-">> \o StrNat(-n) ELSE StrNat(n)

\* An f-string's rendering of a text or None
Format(x) == IF IsText(x) THEN x.v ELSE <<"N", "o", "n", "e">>

(***************************************************************************)
(* Item.make_prompt (src/items.py:99-106).  fault = "count" is the         *)
(* tokenizer raising in the call that measures the prompt.                 *)
(***************************************************************************)
PromptHead(main_category) ==
    QUESTION \o <<"\n", "\n">>
        \o <<"M","a","i","n","_","C","a","t","e","g","o","r","y",":"," ">>
        \o Format(main_category) \o <<"\n", "\n">>

PromptTail(price) == PREFIX \o str(round(price)) \o <<".", "0", "0">>

make_prompt_CountText(self, text, fault) ==
    LET prompt == PromptHead(self.main_category) \o text \o <<"\n", "\n">>
                      \o PromptTail(self.price)
    IN IF fault = "count"
       THEN [self |-> [self EXCEPT !.prompt = Text(prompt)],
             error |-> "EncodingError"]
       ELSE [self |-> [self EXCEPT !.prompt = Text(prompt),
                                   !.token_count = Len(encode(text))],
             error |-> ""]

make_prompt(self, text, fault) ==
    LET prompt == PromptHead(self.main_category) \o text \o <<"\n", "\n">>
                      \o PromptTail(self.price)
        self1 == [self EXCEPT !.prompt = Text(prompt)]
    IN IF fault = "count"
       THEN [self |-> self1, error |-> "EncodingError"]
       ELSE [self |-> [self1 EXCEPT !.token_count = Len(encode(prompt))],
             error |-> ""]

(***************************************************************************)
(* Item.parse (src/items.py:72-97).  fault = "encode" is the tokenizer     *)
(* raising in the call that encodes the candidate text.                    *)
(***************************************************************************)
AssembleContents_Overwrite(d) ==
    LET description == Join(<<"\n">>, d.description)
        c1 == IF description # <<>> THEN description \o <<"\n">> ELSE description
        features == Join(<<"\n">>, d.features)
        c2 == IF features # <<>> THEN features \o <<"\n">> ELSE c1
    IN IF Truthy(d.details)
       THEN c2 \o scrub_details(d.details.v) \o <<"\n">>
       ELSE c2

AssembleContents(d) ==
    LET description == Join(<<"\n">>, d.description)
        c1 == IF description # <<>> THEN description \o <<"\n">> ELSE description
        features == Join(<<"\n">>, d.features)
        c2 == IF features # <<>> THEN c1 \o features \o <<"\n">> ELSE c1
    IN IF Truthy(d.details)
       THEN c2 \o scrub_details(d.details.v) \o <<"\n">>
       ELSE c2

CandidateText(title, contents) ==
    scrub(title) \o <<"\n">> \o scrub(Take(contents, CEILING_CHARS))

\* The character gate (line 89), the token gate (line 93), the cut (line 94)
LongEnough(contents) == Len(contents) > MIN_CHARS

EnoughTokens_AtLeast(tokens) == Len(tokens) >= MIN_TOKENS

EnoughTokens(tokens) == Len(tokens) > MIN_TOKENS

Truncate_Uncut(tokens) == tokens

Truncate(tokens) == Take(tokens, MAX_TOKENS)

\* Falling out of either "if" without an "else": the item as it stands
Reject_Reset(self) ==
    [self |-> [self EXCEPT !.include = FALSE, !.prompt = None, !.token_count = 0],
     error |-> ""]

Reject(self) == [self |-> self, error |-> ""]

parse(self, d, fault) ==
    LET contents == AssembleContents(d)
        self1 == [self EXCEPT !.details = d.details]
    IN IF LongEnough(contents)
       THEN IF ~IsText(self.title)
            THEN [self |-> self1, error |-> "TypeError"]
            ELSE IF fault = "encode"
            THEN [self |-> self1, error |-> "EncodingError"]
            ELSE LET tokens == encode(CandidateText(self.title.v, contents))
                 IN IF EnoughTokens(tokens)
                    THEN LET made == make_prompt(self1,
                                         decode(Truncate(tokens)), fault)
                         IN IF made.error # ""
                            THEN made
                            ELSE [self |-> [made.self EXCEPT !.include = TRUE],
                                  error |-> ""]
                    ELSE Reject(self1)
       ELSE Reject(self1)

(***************************************************************************)
(* Item.__init__ (src/items.py:38-47): the item, or the error raised.      *)
(***************************************************************************)
NewItem(d, price, fault) ==
    IF d.title = Missing \/ d.main_category = Missing
    THEN [self |-> NoItem, error |-> "KeyError"]
    ELSE LET self0 == [title |-> d.title, price |-> price, token_count |-> 0,
                       include |-> FALSE, prompt |-> None, details |-> None,
                       category |-> None, main_category |-> d.main_category]
             parsed == parse(self0, d, fault)
         IN IF parsed.error # ""
            THEN [self |-> NoItem, error |-> parsed.error]
            ELSE parsed

(***************************************************************************)
(* Item.test_prompt (src/items.py:108-113).                                *)
(***************************************************************************)
test_prompt(self) == Split(self.prompt.v, PREFIX)[1] \o PREFIX

(***************************************************************************)
(* Inputs.  A description fragment is a run of k short words; the counts   *)
(* lie within Slack of the places where the character gate and the token   *)
(* gate and cut change their answer for the sample title.                  *)
(***************************************************************************)
Slack == 1
MaxQuarters == 2
BaseDollars == 122
MaxPieces == 4

\* k copies of word w separated by single spaces
Words(w, k) ==
    LET L == Len(w) + 1
    IN [i \in 1..(k * L - 1) |-> IF i % L = 0 THEN " " ELSE w[i % L]]

Near(n) == (n - Slack)..(n + Slack)

SampleTitle == <<"D","e","l","l"," ","L","a","p","t","o","p">>
SampleCategory == <<"E","l","e","c","t","r","o","n","i","c","s">>
SampleDetails == <<"M","a","n","u","f","a","c","t","u","r","e","r",":"," ","D","e","l","l">>
SampleFeature == <<"i", "5">>

Titles == {Text(SampleTitle), None, Missing}
Categories == {Text(SampleCategory), Text(PREFIX \o <<"9">>), None, Missing}
Prices == {4 * BaseDollars + q : q \in 0..MaxQuarters}
Faults == {"none", "encode", "count"}

\* one-letter words: two characters a token, around the character gate
CharGateRuns == {Words(<<"a">>, k) : k \in Near(MIN_CHARS \div 2)}
\* two-letter words: around the token gate and around the token cut
TokenGateRuns ==
    {Words(<<"a", "b">>, k) : k \in Near(MIN_TOKENS - 2) \cup Near(MAX_TOKENS - 2)}

Descriptions == {<<>>} \cup {<<run>> : run \in CharGateRuns \cup TokenGateRuns}
FeatureLists == {<<>>, <<SampleFeature>>}
DetailsValues == {None, Text(SampleDetails)}

Record(title, main_category, description, features, details) ==
    [title |-> title, main_category |-> main_category,
     description |-> description, features |-> features, details |-> details]

Records ==
    {Record(t, c, ds, fs, dt) :
        t \in Titles, c \in Categories, ds \in Descriptions,
        fs \in FeatureLists, dt \in DetailsValues}

NoData == [k |-> "nodata"]
Untested == [k |-> "untested", v |-> <<>>]
Raised == [k |-> "raised", v |-> <<>>]
NoOut == [op |-> "", res |-> <<>>]

Init ==
    /\ item = NoItem
    /\ data = NoData
    /\ err = ""
    /\ tested = Untested
    /\ item2 = NoItem
    /\ data2 = NoData
    /\ stuff = <<>>
    /\ out = NoOut

(***************************************************************************)
(* Item(data, price): one construction, then test_prompt() on its result.  *)
(***************************************************************************)
Construct(d, price, fault) ==
    /\ data = NoData
    /\ LET made == NewItem(d, price, fault)
       IN /\ item' = made.self
          /\ err' = made.error
    /\ data' = d
    /\ UNCHANGED <<tested, item2, data2, stuff, out>>

TestPrompt ==
    /\ item # NoItem
    /\ tested = Untested
    /\ IF IsText(item.prompt)
       THEN tested' = Text(test_prompt(item)) /\ err' = ""
       ELSE tested' = Raised /\ err' = "AttributeError"
    /\ UNCHANGED <<item, data, item2, data2, stuff, out>>

Next ==
    \/ \E d \in Records, price \in Prices, fault \in Faults :
           Construct(d, price, fault)
    \/ TestPrompt

Spec == Init /\ [][Next]_vars

(***************************************************************************)
(* Claims about one construction (specification Spec).                     *)
(***************************************************************************)
StartsWith(t, p) == MatchAt(t, p, 1)
EndsWith(t, p) == MatchAt(t, p, Len(t) - Len(p) + 1)

\* construction returned an item
Built == data # NoData /\ item # NoItem

CandidateTokens == encode(CandidateText(item.title.v, AssembleContents(data)))

\* the description text of the prompt: what lies between its head and its tail
PromptBody ==
    LET p == item.prompt.v
    IN SubSeq(p, Len(PromptHead(item.main_category)) + 1,
                 Len(p) - Len(PromptTail(item.price)) - 2)

\* C1: a built item has include = TRUE exactly when the assembled contents are
\* longer than MIN_CHARS characters and the candidate text encodes to more than
\* MIN_TOKENS tokens; both bounds are exclusive.
C1_IncludeIffBothGates ==
    Built =>
        (item.include <=>
            /\ Len(AssembleContents(data)) > MIN_CHARS
            /\ Len(CandidateTokens) > MIN_TOKENS)

\* contents of exactly MIN_CHARS + 1 characters went on to tokenization and
\* were accepted
C1_Witness ==
    /\ Built
    /\ item.include
    /\ Len(AssembleContents(data)) = MIN_CHARS + 1

\* C2: the prompt of an accepted item starts with QUESTION, a blank line,
\* "Main_Category: <main_category>" and a blank line, and ends with PREFIX, the
\* integer nearest to the price (a tie goes to the even one) and ".00".
C2_PromptShape ==
    Built /\ item.include =>
        LET p == item.prompt.v
            q == item.price
            cat == IF IsText(data.main_category) THEN data.main_category.v
                   ELSE <<"N", "o", "n", "e">>
            n == CHOOSE m \in (q \div 4)..(q \div 4 + 1) :
                     \/ 4 * m - q \in {-1, 0, 1}
                     \/ 4 * m - q \in {-2, 2} /\ m % 2 = 0
        IN /\ StartsWith(p, QUESTION \o <<"\n", "\n">>
                   \o <<"M","a","i","n","_","C","a","t","e","g","o","r","y",":"," ">>
                   \o cat \o <<"\n", "\n">>)
           /\ EndsWith(p, PREFIX \o StrNat(n) \o <<".", "0", "0">>)

\* an accepted item whose price lies exactly between two dollars
C2_Witness == Built /\ item.include /\ item.price % 4 = 2

\* C3: test_prompt() returns the prompt without the rounded price and ".00",
\* whatever text the title and the category hold.
C3_TestPromptDropsOnlyPrice ==
    IsText(tested) =>
        item.prompt.v = tested.v \o str(round(item.price)) \o <<".", "0", "0">>

\* C7: a record whose title or main category is absent or None makes
\* construction raise and yield no item; a record with both as text and too
\* little text raises nothing and yields an item with include = FALSE
\* (the tokenizer's own failure aside).
C7_OutcomeChannels ==
    data # NoData /\ tested = Untested =>
        /\ ~IsText(data.title) \/ ~IsText(data.main_category) =>
              item = NoItem /\ err # ""
        /\ /\ IsText(data.title) /\ IsText(data.main_category)
           /\ err # "EncodingError"
           /\ ~(/\ Len(AssembleContents(data)) > MIN_CHARS
                /\ Len(encode(CandidateText(data.title.v,
                                            AssembleContents(data)))) > MIN_TOKENS)
           => err = "" /\ item # NoItem /\ ~item.include

\* C8: in a built item, prompt is set exactly when include is TRUE; then
\* token_count is the token count of the whole prompt; otherwise prompt is None
\* and token_count is 0.  A tokenizer failure yields no item.
C8_DerivedFieldsAgree ==
    /\ Built =>
          /\ IsText(item.prompt) <=> item.include
          /\ item.include => item.token_count = Len(encode(item.prompt.v))
          /\ ~item.include => item.prompt = None /\ item.token_count = 0
    /\ data # NoData /\ err = "EncodingError" => item = NoItem

\* an accepted item: its count covers more than the MAX_TOKENS of the body
C8_Witness == Built /\ item.include /\ item.token_count > MAX_TOKENS

\* C9: the body of an accepted prompt decodes the first min(n, MAX_TOKENS) of
\* the n candidate tokens, in order: more than MIN_TOKENS and at most
\* MAX_TOKENS of them, and all of them when n <= MAX_TOKENS.
C9_TruncatedToBudget ==
    Built /\ item.include =>
        LET n == Len(CandidateTokens)
            kept == Min2(n, MAX_TOKENS)
        IN /\ PromptBody = Flatten(SubSeq(CandidateTokens, 1, kept))
           /\ kept > MIN_TOKENS
           /\ kept <= MAX_TOKENS
           /\ Len(encode(PromptBody)) = kept
           /\ n <= MAX_TOKENS => PromptBody = Flatten(CandidateTokens)

\* an accepted item whose candidate text had more than MAX_TOKENS tokens
C9_Witness == Built /\ item.include /\ Len(CandidateTokens) > MAX_TOKENS

(***************************************************************************)
(* parse() called again on a built item, as the manual test at             *)
(* src/items.py:149-152 does (specification SpecReparse).                  *)
(***************************************************************************)
ReparseRecords ==
    {Record(Text(SampleTitle), Text(SampleCategory), ds, <<>>, dt) :
        ds \in {<<>>} \cup {<<run>> : run \in TokenGateRuns},
        dt \in DetailsValues}

Parse(d, fault) ==
    /\ item # NoItem
    /\ LET parsed == parse(item, d, fault)
       IN /\ item' = parsed.self
          /\ err' = parsed.error
    /\ data' = d
    /\ UNCHANGED <<tested, item2, data2, stuff, out>>

NextReparse ==
    \/ \E d \in ReparseRecords, price \in Prices : Construct(d, price, "none")
    \/ \E d \in ReparseRecords : Parse(d, "none")

SpecReparse == Init /\ [][NextReparse]_vars

\* the record passes both gates for an item with this title
Accepts(title, d) ==
    /\ Len(AssembleContents(d)) > MIN_CHARS
    /\ Len(encode(CandidateText(title, AssembleContents(d)))) > MIN_TOKENS

\* C10: once include is TRUE no parse call resets it; a call with a record
\* that fails a gate leaves prompt and token_count as they were and overwrites
\* only details.
C10_IncludeMonotone ==
    [][item # NoItem /\ item.include =>
          /\ item' # NoItem
          /\ item'.include
          /\ ~Accepts(item.title.v, data') =>
                /\ item'.prompt = item.prompt
                /\ item'.token_count = item.token_count
                /\ item'.details = data'.details]_vars

\* an accepted item whose last parse call was given a record that fails a gate
C10_Witness ==
    /\ Built
    /\ item.include
    /\ ~Accepts(item.title.v, data)
    /\ item.details = data.details

(***************************************************************************)
(* Two constructions, the second from the first record with one more       *)
(* fragment of description or feature text (specification SpecMono).       *)
(***************************************************************************)
SkuWord == <<"a", "b", "c", "d", "e", "f", "1">>

\* added text: a word, a few words, and a run of words scrub drops that
\* fills the CEILING_CHARS characters parse keeps
Extensions ==
    {<<"a">>, Words(<<"a", "b">>, 2 + Slack),
     Words(SkuWord, CEILING_CHARS \div (Len(SkuWord) + 1))}

MonoRuns == {Words(<<"a", "b">>, k) : k \in Near(MIN_TOKENS - 2)}

MonoRecords ==
    {Record(Text(SampleTitle), Text(SampleCategory), ds, fs, dt) :
        ds \in {<<>>} \cup {<<run>> : run \in MonoRuns},
        fs \in FeatureLists \cup {<<run>> : run \in MonoRuns},
        dt \in DetailsValues}

Extend(d, field, more) ==
    IF field = "description"
    THEN [d EXCEPT !.description = Append(@, more)]
    ELSE [d EXCEPT !.features = Append(@, more)]

ConstructExtended(field, more) ==
    /\ item # NoItem
    /\ data2 = NoData
    /\ LET d == Extend(data, field, more)
       IN /\ data2' = d
          /\ item2' = NewItem(d, item.price, "none").self
    /\ UNCHANGED <<item, data, err, tested, stuff, out>>

NextMono ==
    \/ \E d \in MonoRecords, price \in Prices : Construct(d, price, "none")
    \/ \E field \in {"description", "features"}, more \in Extensions :
           ConstructExtended(field, more)

SpecMono == Init /\ [][NextMono]_vars

\* C6 as stated: when the first record is accepted, so is the extended one.
C6_AcceptanceMonotone ==
    data2 # NoData /\ item.include => item2.include

\* C6 as amended: when the first record is accepted, the extended one has
\* longer contents and passes the character gate, and it is accepted exactly
\* when its own candidate text still has more than MIN_TOKENS tokens.
C6_CharGateMonotone ==
    data2 # NoData /\ item.include =>
        /\ Len(AssembleContents(data2)) > Len(AssembleContents(data))
        /\ Len(AssembleContents(data2)) > MIN_CHARS
        /\ item2 # NoItem
        /\ item2.include <=>
              Len(encode(CandidateText(data2.title.v,
                                       AssembleContents(data2)))) > MIN_TOKENS

\* both accepted, the added text having pushed the contents past the cut
C6_Witness ==
    /\ data2 # NoData
    /\ item.include
    /\ item2.include
    /\ Len(AssembleContents(data2)) > CEILING_CHARS

(***************************************************************************)
(* scrub and scrub_details applied to short texts (specification SpecText). *)
(***************************************************************************)
Pieces ==
    {<<",">>, <<",", ",">>, <<" ">>, <<"a">>, <<":">>, SkuWord,
     <<"M","a","n","u">>, <<"f","a","c","t","u","r","e","r">>,
     REMOVALS[1], REMOVALS[2]}

TextInputs ==
    {Flatten(ps) : ps \in UNION {[1..n -> Pieces] : n \in 0..MaxPieces}}

InitText ==
    /\ item = NoItem
    /\ data = NoData
    /\ err = ""
    /\ tested = Untested
    /\ item2 = NoItem
    /\ data2 = NoData
    /\ stuff \in TextInputs
    /\ out = NoOut

\* scrub(stuff)
CallScrub ==
    /\ out = NoOut
    /\ out' = [op |-> "scrub", res |-> <<scrub(stuff)>>]
    /\ UNCHANGED <<item, data, err, tested, item2, data2, stuff>>

\* scrub of what scrub returned
CallScrubAgain ==
    /\ out.op = "scrub"
    /\ Len(out.res) = 1
    /\ out' = [out EXCEPT !.res = Append(@, scrub(out.res[1]))]
    /\ UNCHANGED <<item, data, err, tested, item2, data2, stuff>>

\* scrub_details() with details = stuff
CallScrubDetails ==
    /\ out = NoOut
    /\ out' = [op |-> "scrub_details", res |-> <<scrub_details(stuff)>>]
    /\ UNCHANGED <<item, data, err, tested, item2, data2, stuff>>

NextText == CallScrub \/ CallScrubAgain \/ CallScrubDetails

SpecText == InitText /\ [][NextText]_vars

\* C4: a second pass of scrub changes nothing.
C4_ScrubIdempotent ==
    out.op = "scrub" /\ Len(out.res) = 2 => out.res[2] = out.res[1]

\* C5: what scrub_details returns holds no string of REMOVALS.
C5_RemovalComplete ==
    out.op = "scrub_details" =>
        \A r \in 1..Len(REMOVALS) : ~Contains(out.res[1], REMOVALS[r])

=============================================================================
